---- MODULE Spec2Model ----
(***************************************************************************)
(* RegionWorker (src/src/components/Progress.vue, lines 76-411): a paced   *)
(* work queue with a cancel token, three progress counters and a           *)
(* start/stop/resetProgress lifecycle.                                     *)
(*                                                                         *)
(* One step of the model is one JavaScript callback run to completion: a   *)
(* public call (enqueue, start, stop, resetProgress), the setTimeout       *)
(* callback of ensureTimeout, or one of the promise callbacks that         *)
(* processQueue attaches to the popped action (.catch, .finally).          *)
(***************************************************************************)
EXTENDS Naturals, Integers, Sequences, FiniteSets, Bags, TLC

\* ---- bounds of the model ------------------------------------------------
MaxPriority == 2     \* priorities are drawn from 1..MaxPriority
MaxEnqueue  == 2     \* enqueue calls per generation (between two resets)
MaxFill     == 1     \* items fillQueue enqueues synchronously
MaxResets   == 1     \* successful resetProgress() calls
MaxStartCount == 2   \* start() calls are counted up to this number
MaxInFlight == 2     \* popped actions whose callbacks have not all run
MaxPages == 3        \* pages of the source of a paged request

VARIABLES
    queue,          \* PriorityQueue<QueueItem>: pending items, arrival order
    queueFilled,    \* boolean
    started,        \* _started
    processing,     \* boolean
    timeout,        \* Maybe<number>: TRUE iff a setTimeout handle is held
    cancel,         \* CancelToken, the live epoch
    progressDone,   \* _progressDone
    progressTotal,  \* _progressTotal
    progressError,  \* _progressErrors
    inflight,       \* bag of popped actions whose callbacks have not all run
    \* history variables (observers; no action's guard or effect reads them
    \* except the bounds on enqCalls and resets)
    enqCalls,       \* enqueue calls since construction / the last reset
    resets,         \* successful resetProgress() calls
    startCalls,     \* start() calls since construction / the last reset,
                    \* counted up to MaxStartCount
    fillCalls,      \* fillQueue invocations since construction / last reset
    last,           \* the callback that produced this state
    chain,          \* the enqueuePagedRequestFold call: its source, its two
                    \* futures, the fold value and (history) the handler log
    req             \* the enqueueRequest call: its future and (history) the
                    \* outcome of its action

vars == <<queue, queueFilled, started, processing, timeout, cancel,
          progressDone, progressTotal, progressError, inflight,
          enqCalls, resets, startCalls, fillCalls, last, chain, req>>

counters == <<progressDone, progressTotal, progressError>>
hist     == <<enqCalls, resets, startCalls, fillCalls>>
paged    == <<chain, req>>

Priorities == 1..MaxPriority

\* QueueItem {priority, fn}; fn names the kind of action the item carries
Item(priority) == [priority |-> priority, fn |-> "task"]

\* ---- PriorityQueue (datastructures/priority-queue) ----------------------
\* lowest priority value first, ties in arrival order
PQPush(q, x) == Append(q, x)

PQEmpty(q) == Len(q) = 0

PQMinIndex(q) ==
    CHOOSE i \in 1..Len(q) :
        /\ \A j \in 1..Len(q) : q[i].priority <= q[j].priority
        /\ \A j \in 1..(i - 1) : q[j].priority > q[i].priority

PQTop(q) == q[PQMinIndex(q)]

PQPopped(q) ==
    [k \in 1..(Len(q) - 1) |-> IF k < PQMinIndex(q) THEN q[k] ELSE q[k + 1]]

PQClear == <<>>

\* ---- getters and helpers ------------------------------------------------
cancelled(token) == cancel # token

finished == PQEmpty(queue) /\ ~processing

\* a reset guard that forgets the action in flight
running_IgnoresProcessing == started /\ ~PQEmpty(queue)

running == started /\ ~finished

\* ensureTimeout(): the value of `timeout` after the call
ensureTimeout == IF ~timeout THEN TRUE ELSE timeout

\* discardTimeout(): the value of `timeout` after the call
discardTimeout == IF timeout THEN FALSE ELSE timeout

Op(name, seg) == [op |-> name, seg |-> seg]

CountStart == IF startCalls < MaxStartCount THEN startCalls + 1 ELSE startCalls

\* no enqueuePagedRequestFold call yet
NoChain == [n |-> 0, st |-> "none", fold |-> "none", handled |-> <<>>,
            value |-> <<>>, result |-> <<>>, enq |-> 0, liar |-> FALSE]

\* no enqueueRequest call yet
NoReq == [st |-> "none", outcome |-> "none"]

Init ==
    /\ queue = <<>>
    /\ queueFilled = FALSE
    /\ started = FALSE
    /\ processing = FALSE
    /\ timeout = FALSE
    /\ cancel = 0
    /\ progressDone = 0
    /\ progressTotal = 0
    /\ progressError = 0
    /\ inflight = EmptyBag
    /\ enqCalls = 0
    /\ resets = 0
    /\ startCalls = 0
    /\ fillCalls = 0
    /\ last = Op("new", 0)
    /\ chain = NoChain
    /\ req = NoReq

\* the counter is bumped only on the started branch
Enqueue_CountsWhenStarted(priority) ==
    /\ enqCalls < MaxEnqueue
    /\ progressTotal' = IF started THEN progressTotal + 1 ELSE progressTotal
    /\ queue' = PQPush(queue, Item(priority))
    /\ timeout' = IF started THEN ensureTimeout ELSE timeout
    /\ enqCalls' = enqCalls + 1
    /\ last' = Op("enqueue", resets)
    /\ UNCHANGED paged
    /\ UNCHANGED <<queueFilled, started, processing, cancel, progressDone,
                   progressError, inflight, resets, startCalls, fillCalls>>

\* ---- enqueue(priority, fn) ----------------------------------------------
Enqueue(priority) ==
    /\ enqCalls < MaxEnqueue
    /\ progressTotal' = progressTotal + 1
    /\ queue' = PQPush(queue, Item(priority))
    /\ timeout' = IF started THEN ensureTimeout ELSE timeout
    /\ enqCalls' = enqCalls + 1
    /\ last' = Op("enqueue", resets)
    /\ UNCHANGED paged
    /\ UNCHANGED <<queueFilled, started, processing, cancel, progressDone,
                   progressError, inflight, resets, startCalls, fillCalls>>

\* ---- start() ------------------------------------------------------------
\* fillQueue() is abstract: it enqueues the items of `ps` synchronously
\* (anything it enqueues later is an Enqueue step).
FillSeqs == UNION {[1..n -> Priorities] : n \in 0..MaxFill}

RECURSIVE PushAll(_, _)
PushAll(q, ps) ==
    IF Len(ps) = 0 THEN q ELSE PushAll(PQPush(q, Item(Head(ps))), Tail(ps))

StartNoop ==
    /\ started
    /\ startCalls' = CountStart
    /\ last' = Op("start", resets)
    /\ UNCHANGED paged
    /\ UNCHANGED <<queue, queueFilled, started, processing, timeout, cancel,
                   counters, inflight, enqCalls, resets, fillCalls>>

\* start() without the queueFilled test: fillQueue runs again
StartFilled_Refills ==
    /\ ~started
    /\ queueFilled
    /\ started' = TRUE
    /\ timeout' = ensureTimeout
    /\ fillCalls' = fillCalls + 1
    /\ startCalls' = CountStart
    /\ last' = Op("start", resets)
    /\ UNCHANGED paged
    /\ UNCHANGED <<queue, queueFilled, processing, cancel, counters,
                   inflight, enqCalls, resets>>

StartFilled ==
    /\ ~started
    /\ queueFilled
    /\ started' = TRUE
    /\ timeout' = ensureTimeout
    /\ startCalls' = CountStart
    /\ last' = Op("start", resets)
    /\ UNCHANGED paged
    /\ UNCHANGED <<queue, queueFilled, processing, cancel, counters,
                   inflight, enqCalls, resets, fillCalls>>

StartFill(ps) ==
    /\ ~started
    /\ ~queueFilled
    /\ enqCalls + Len(ps) <= MaxEnqueue
    /\ started' = TRUE
    /\ timeout' = ensureTimeout
    /\ queueFilled' = TRUE
    /\ fillCalls' = fillCalls + 1
    /\ queue' = PushAll(queue, ps)
    /\ progressTotal' = progressTotal + Len(ps)
    /\ enqCalls' = enqCalls + Len(ps)
    /\ startCalls' = CountStart
    /\ last' = Op("start", resets)
    /\ UNCHANGED paged
    /\ UNCHANGED <<processing, cancel, progressDone, progressError,
                   inflight, resets>>

Start == StartNoop \/ StartFilled \/ (\E ps \in FillSeqs : StartFill(ps))

\* ---- stop() -------------------------------------------------------------
StopNoop ==
    /\ ~started
    /\ last' = Op("stop", resets)
    /\ UNCHANGED paged
    /\ UNCHANGED <<queue, queueFilled, started, processing, timeout, cancel,
                   counters, inflight, hist>>

\* stop() that also bumps the cancel token
StopStarted_Cancels ==
    /\ started
    /\ started' = FALSE
    /\ timeout' = discardTimeout
    /\ cancel' = cancel + 1
    /\ last' = Op("stop", resets)
    /\ UNCHANGED paged
    /\ UNCHANGED <<queue, queueFilled, processing, counters, inflight, hist>>

StopStarted ==
    /\ started
    /\ started' = FALSE
    /\ timeout' = discardTimeout
    /\ last' = Op("stop", resets)
    /\ UNCHANGED paged
    /\ UNCHANGED <<queue, queueFilled, processing, cancel, counters,
                   inflight, hist>>

Stop == StopNoop \/ StopStarted

\* ---- resetProgress() ----------------------------------------------------
ResetThrow ==
    /\ running
    /\ last' = Op("resetThrow", resets)
    /\ UNCHANGED paged
    /\ UNCHANGED <<queue, queueFilled, started, processing, timeout, cancel,
                   counters, inflight, hist>>

\* resetProgress() without queue.clear()
ResetOk_NoClear ==
    /\ ~running
    /\ resets < MaxResets
    /\ progressDone' = 0
    /\ progressTotal' = 0
    /\ progressError' = 0
    /\ queueFilled' = FALSE
    /\ cancel' = cancel + 1
    /\ enqCalls' = 0
    /\ resets' = resets + 1
    /\ startCalls' = 0
    /\ fillCalls' = 0
    /\ last' = Op("resetOk", resets + 1)
    /\ UNCHANGED paged
    /\ UNCHANGED <<queue, started, processing, timeout, inflight>>

\* resetProgress() that leaves _progressErrors alone
ResetOk_KeepsErrors ==
    /\ ~running
    /\ resets < MaxResets
    /\ progressDone' = 0
    /\ progressTotal' = 0
    /\ queueFilled' = FALSE
    /\ queue' = PQClear
    /\ cancel' = cancel + 1
    /\ enqCalls' = 0
    /\ resets' = resets + 1
    /\ startCalls' = 0
    /\ fillCalls' = 0
    /\ last' = Op("resetOk", resets + 1)
    /\ UNCHANGED paged
    /\ UNCHANGED <<progressError, started, processing, timeout, inflight>>

ResetOk ==
    /\ ~running
    /\ resets < MaxResets
    /\ progressDone' = 0
    /\ progressTotal' = 0
    /\ progressError' = 0
    /\ queueFilled' = FALSE
    /\ queue' = PQClear
    /\ cancel' = cancel + 1
    /\ enqCalls' = 0
    /\ resets' = resets + 1
    /\ startCalls' = 0
    /\ fillCalls' = 0
    /\ last' = Op("resetOk", resets + 1)
    /\ UNCHANGED paged
    /\ UNCHANGED <<started, processing, timeout, inflight>>

ResetProgress == ResetThrow \/ ResetOk

\* ---- the setTimeout callback of ensureTimeout, and processQueue() --------
\* one.fn(cancel) in flight: the action that was started, the token the
\* .catch/.finally closures captured at pop time and (history) the number of
\* resets that had happened by then.
\* `out` is what is known of the promise one.fn returns: "any" for an opaque
\* action (it may fulfil or reject), "wait" while the request of a page or
\* request action is outstanding, then "ok", "threw" or "err". A page
\* action's closure also holds its page and its priority.
Task(one) ==
    [fn |-> one.fn, cancel |-> cancel, seg |-> resets, caught |-> FALSE,
     out |-> IF one.fn = "task" THEN "any" ELSE "wait",
     page |-> IF one.fn = "page" THEN one.page ELSE 0,
     priority |-> IF one.fn = "page" THEN one.priority ELSE 0]

TickEmpty ==
    /\ timeout
    /\ PQEmpty(queue)
    /\ timeout' = FALSE
    /\ last' = Op("tick", resets)
    /\ UNCHANGED paged
    /\ UNCHANGED <<queue, queueFilled, started, processing, cancel, counters,
                   inflight, hist>>

TickPop ==
    /\ timeout
    /\ ~PQEmpty(queue)
    /\ BagCardinality(inflight) < MaxInFlight
    /\ timeout' = FALSE
    /\ queue' = PQPopped(queue)
    /\ processing' = TRUE
    /\ inflight' = inflight (+) SetToBag({Task(PQTop(queue))})
    /\ last' = Op("pop", resets)
    /\ UNCHANGED paged
    /\ UNCHANGED <<queueFilled, started, cancel, counters, hist>>

Tick == TickEmpty \/ TickPop

\* ---- the promise callbacks of processQueue() ----------------------------
\* .finally without the cancelled(cancel) test
Finally_NoStaleCheck(t) ==
    /\ progressDone' = progressDone + 1
    /\ processing' = FALSE
    /\ timeout' = ensureTimeout
    /\ inflight' = inflight (-) SetToBag({t})

\* .finally that clears `processing` only inside the cancelled(cancel) test
Finally_StaleKeepsProcessing(t) ==
    /\ progressDone' = IF ~cancelled(t.cancel) THEN progressDone + 1
                       ELSE progressDone
    /\ processing' = IF ~cancelled(t.cancel) THEN FALSE ELSE processing
    /\ timeout' = ensureTimeout
    /\ inflight' = inflight (-) SetToBag({t})

\* .finally that does not call ensureTimeout()
Finally_NoRearm(t) ==
    /\ progressDone' = IF ~cancelled(t.cancel) THEN progressDone + 1
                       ELSE progressDone
    /\ processing' = FALSE
    /\ timeout' = timeout
    /\ inflight' = inflight (-) SetToBag({t})

\* .finally(() => {...}) for the action t
Finally(t) ==
    /\ progressDone' = IF ~cancelled(t.cancel) THEN progressDone + 1
                       ELSE progressDone
    /\ processing' = FALSE
    /\ timeout' = ensureTimeout
    /\ inflight' = inflight (-) SetToBag({t})

\* the action's promise fulfils: .catch is passed over, .finally runs
ActionResolved(t) ==
    /\ ~t.caught
    /\ t.out \in {"any", "ok"}
    /\ Finally(t)
    /\ last' = Op("resolved", t.seg)
    /\ UNCHANGED paged
    /\ UNCHANGED <<queue, queueFilled, started, cancel, progressTotal,
                   progressError, hist>>

\* the action's promise rejects: .catch(e => {...}) runs
ActionRejected(t) ==
    /\ ~t.caught
    /\ t.out \in {"any", "err"}
    /\ progressError' = IF ~cancelled(t.cancel) THEN progressError + 1
                        ELSE progressError
    /\ inflight' = (inflight (-) SetToBag({t}))
                       (+) SetToBag({[t EXCEPT !.caught = TRUE]})
    /\ last' = Op("catch", t.seg)
    /\ UNCHANGED paged
    /\ UNCHANGED <<queue, queueFilled, started, processing, timeout, cancel,
                   progressDone, progressTotal, hist>>

\* .finally runs in a later microtask than the .catch callback
FinallyAfterCatch(t) ==
    /\ t.caught
    /\ Finally(t)
    /\ last' = Op("finally", t.seg)
    /\ UNCHANGED paged
    /\ UNCHANGED <<queue, queueFilled, started, cancel, progressTotal,
                   progressError, hist>>

Settle ==
    \E t \in BagToSet(inflight) :
        ActionResolved(t) \/ ActionRejected(t) \/ FinallyAfterCatch(t)

Next ==
    \/ \E p \in Priorities : Enqueue(p)
    \/ Start
    \/ Stop
    \/ ResetProgress
    \/ Tick
    \/ Settle

Spec == Init /\ [][Next]_vars

\* The browser runs an armed setTimeout callback after its delay, and every
\* admitted action settles, after which its promise callbacks run.
FairSpec == Spec /\ WF_vars(Tick) /\ WF_vars(Settle)

\* ==== enqueueRequest, enqueuePagedRequest, enqueuePagedRequestFold ========
\* Page i of the source carries the data i and reports hasNextPage iff
\* i < chain.n; the page handler of the fold appends the data to `value`.
PageItem(priority, i) == [priority |-> priority, fn |-> "page", page |-> i]

ReqItem(priority) == [priority |-> priority, fn |-> "request"]

\* enqueue(priority, fn) called for the item x
EnqueueItem(x) ==
    /\ progressTotal' = progressTotal + 1
    /\ queue' = PQPush(queue, x)
    /\ timeout' = IF started THEN ensureTimeout ELSE timeout
    /\ enqCalls' = enqCalls + 1

\* resolve / reject of a promise that may be settled already
Settled(st, to) == IF st = "pending" THEN to ELSE st

\* the in-flight action t with its promise state changed
SetOut(t, o) ==
    (inflight (-) SetToBag({t})) (+) SetToBag({[t EXCEPT !.out = o]})

\* ---- enqueuePagedRequestFold(priority, request, initial, handler) -------
EnqueuePagedRequestFold(priority, n) ==
    /\ chain.n = 0
    /\ chain' = [chain EXCEPT !.n = n, !.st = "pending", !.fold = "pending",
                              !.enq = 1]
    /\ EnqueueItem(PageItem(priority, 1))
    /\ last' = Op("enqueuePaged", resets)
    /\ UNCHANGED <<queueFilled, started, processing, cancel, progressDone,
                   progressError, inflight, resets, startCalls, fillCalls,
                   req>>

\* ---- handlePagedResponse ------------------------------------------------
\* the token is stale: reject('cancelled'); return
PageResponseStale(t) ==
    /\ t.fn = "page" /\ t.out = "wait"
    /\ cancelled(t.cancel)
    /\ chain' = [chain EXCEPT !.st = Settled(chain.st, "rejected")]
    /\ inflight' = SetOut(t, "ok")
    /\ last' = Op("pageStale", t.seg)
    /\ UNCHANGED <<queue, queueFilled, started, processing, timeout, cancel,
                   counters, hist, req>>

\* the last page: handler(response); resolve()
PageResponseLast(t) ==
    /\ t.fn = "page" /\ t.out = "wait"
    /\ ~cancelled(t.cancel)
    /\ ~(t.page < chain.n)
    /\ chain' = [chain EXCEPT !.handled = Append(chain.handled, t.page),
                              !.value = Append(chain.value, t.page),
                              !.st = Settled(chain.st, "resolved")]
    /\ inflight' = SetOut(t, "ok")
    /\ last' = Op("pageLast", t.seg)
    /\ UNCHANGED <<queue, queueFilled, started, processing, timeout, cancel,
                   counters, hist, req>>

\* handlePagedResponse without the else: resolve() is reached on every page
PageResponseNext_AlsoResolves(t) ==
    /\ t.fn = "page" /\ t.out = "wait"
    /\ ~cancelled(t.cancel)
    /\ t.page < chain.n
    /\ chain' = [chain EXCEPT !.handled = Append(chain.handled, t.page),
                              !.value = Append(chain.value, t.page),
                              !.enq = chain.enq + 1,
                              !.st = Settled(chain.st, "resolved")]
    /\ EnqueueItem(PageItem(t.priority, t.page + 1))
    /\ inflight' = SetOut(t, "ok")
    /\ last' = Op("pageNext", t.seg)
    /\ UNCHANGED <<queueFilled, started, processing, cancel, progressDone,
                   progressError, resets, startCalls, fillCalls, req>>

\* handlePagedResponse without the cancelled(token) test
PageResponseNext_NoStaleCheck(t) ==
    /\ t.fn = "page" /\ t.out = "wait"
    /\ t.page < chain.n
    /\ chain' = [chain EXCEPT !.handled = Append(chain.handled, t.page),
                              !.value = Append(chain.value, t.page),
                              !.enq = chain.enq + 1]
    /\ EnqueueItem(PageItem(t.priority, t.page + 1))
    /\ inflight' = SetOut(t, "ok")
    /\ last' = Op("pageNext", t.seg)
    /\ UNCHANGED <<queueFilled, started, processing, cancel, progressDone,
                   progressError, resets, startCalls, fillCalls, req>>

\* a further page: handler(response); enqueue(priority, fetch of nextPage)
PageResponseNext(t) ==
    /\ t.fn = "page" /\ t.out = "wait"
    /\ ~cancelled(t.cancel)
    /\ t.page < chain.n
    /\ chain' = [chain EXCEPT !.handled = Append(chain.handled, t.page),
                              !.value = Append(chain.value, t.page),
                              !.enq = chain.enq + 1]
    /\ EnqueueItem(PageItem(t.priority, t.page + 1))
    /\ inflight' = SetOut(t, "ok")
    /\ last' = Op("pageNext", t.seg)
    /\ UNCHANGED <<queueFilled, started, processing, cancel, progressDone,
                   progressError, resets, startCalls, fillCalls, req>>

\* a missing next page is taken for the end of the source: plain return
PageResponseLiar_Silent(t) ==
    /\ t.fn = "page" /\ t.out = "wait"
    /\ ~cancelled(t.cancel)
    /\ t.page < chain.n
    /\ chain' = [chain EXCEPT !.handled = Append(chain.handled, t.page),
                              !.value = Append(chain.value, t.page),
                              !.liar = TRUE]
    /\ inflight' = SetOut(t, "ok")
    /\ last' = Op("pageLiar", t.seg)
    /\ UNCHANGED <<queue, queueFilled, started, processing, timeout, cancel,
                   counters, hist, req>>

\* hasNextPage() but nextPage() yields nothing: handler(response);
\* throw 'AWS is a liar'
PageResponseLiar(t) ==
    /\ t.fn = "page" /\ t.out = "wait"
    /\ ~cancelled(t.cancel)
    /\ t.page < chain.n
    /\ chain' = [chain EXCEPT !.handled = Append(chain.handled, t.page),
                              !.value = Append(chain.value, t.page),
                              !.liar = TRUE]
    /\ inflight' = SetOut(t, "threw")
    /\ last' = Op("pageLiar", t.seg)
    /\ UNCHANGED <<queue, queueFilled, started, processing, timeout, cancel,
                   counters, hist, req>>

\* .catch(e => { throw e; }): the overall future is not rejected
PageCatch_NoReject(t) ==
    /\ chain' = chain
    /\ inflight' = SetOut(t, "err")
    /\ UNCHANGED <<queue, queueFilled, started, processing, timeout, cancel,
                   counters, hist, req>>

\* .catch(e => { reject(e); throw e; }) of the page action
PageCatch(t) ==
    /\ chain' = [chain EXCEPT !.st = Settled(chain.st, "rejected")]
    /\ inflight' = SetOut(t, "err")
    /\ UNCHANGED <<queue, queueFilled, started, processing, timeout, cancel,
                   counters, hist, req>>

\* the fetch of the page fails: .then is passed over, .catch runs
PageFetchFailed(t) ==
    /\ t.fn = "page" /\ t.out = "wait"
    /\ PageCatch(t)
    /\ last' = Op("pageFetchFailed", t.seg)

\* handlePagedResponse threw: .catch runs in the next microtask
PageThrown(t) ==
    /\ t.fn = "page" /\ t.out = "threw"
    /\ PageCatch(t)
    /\ last' = Op("pageThrown", t.seg)

PageSettle ==
    \E t \in BagToSet(inflight) :
        \/ PageResponseStale(t)
        \/ PageResponseLast(t)
        \/ PageResponseNext(t)
        \/ PageResponseLiar(t)
        \/ PageFetchFailed(t)
        \/ PageThrown(t)

\* the .then / .catch reactions of enqueuePagedRequestFold on the inner
\* future: resolve(value), or reject(e)
FoldSettle ==
    /\ chain.fold = "pending"
    /\ chain.st \in {"resolved", "rejected"}
    /\ chain' = [chain EXCEPT !.fold = chain.st,
                              !.result = IF chain.st = "resolved"
                                         THEN chain.value ELSE chain.result]
    /\ last' = Op("foldSettle", resets)
    /\ UNCHANGED <<queue, queueFilled, started, processing, timeout, cancel,
                   counters, inflight, hist, req>>

\* ---- enqueueRequest(priority, request, handler) -------------------------
EnqueueRequest(priority) ==
    /\ req.st = "none"
    /\ req' = [req EXCEPT !.st = "pending"]
    /\ EnqueueItem(ReqItem(priority))
    /\ last' = Op("enqueueRequest", resets)
    /\ UNCHANGED <<queueFilled, started, processing, cancel, progressDone,
                   progressError, inflight, resets, startCalls, fillCalls,
                   chain>>

\* the response arrives under a stale token: reject('cancelled'); return
ReqResponseStale(t) ==
    /\ t.fn = "request" /\ t.out = "wait"
    /\ cancelled(t.cancel)
    /\ req' = [st |-> Settled(req.st, "rejected"), outcome |-> "stale"]
    /\ inflight' = SetOut(t, "ok")
    /\ last' = Op("reqStale", t.seg)
    /\ UNCHANGED <<queue, queueFilled, started, processing, timeout, cancel,
                   counters, hist, chain>>

\* the response arrives under the current token: resolve(handler(response))
ReqResponseOk(t) ==
    /\ t.fn = "request" /\ t.out = "wait"
    /\ ~cancelled(t.cancel)
    /\ req' = [st |-> Settled(req.st, "resolved"), outcome |-> "ok"]
    /\ inflight' = SetOut(t, "ok")
    /\ last' = Op("reqOk", t.seg)
    /\ UNCHANGED <<queue, queueFilled, started, processing, timeout, cancel,
                   counters, hist, chain>>

\* the request fails: .then is passed over and the action's promise
\* rejects; enqueueRequest attaches no .catch
ReqFetchFailed(t) ==
    /\ t.fn = "request" /\ t.out = "wait"
    /\ req' = [req EXCEPT !.outcome = "failed"]
    /\ inflight' = SetOut(t, "err")
    /\ last' = Op("reqFailed", t.seg)
    /\ UNCHANGED <<queue, queueFilled, started, processing, timeout, cancel,
                   counters, hist, chain>>

ReqSettle ==
    \E t \in BagToSet(inflight) :
        ReqResponseStale(t) \/ ReqResponseOk(t) \/ ReqFetchFailed(t)

\* A worker whose only producer is one enqueuePagedRequestFold call
\* (fillQueue enqueues nothing synchronously).
PagedNext ==
    \/ \E p \in Priorities : \E n \in 1..MaxPages :
           EnqueuePagedRequestFold(p, n)
    \/ StartNoop
    \/ StartFilled
    \/ StartFill(<<>>)
    \/ Stop
    \/ ResetProgress
    \/ Tick
    \/ PageSettle
    \/ FoldSettle
    \/ Settle

PagedSpec == Init /\ [][PagedNext]_vars

\* Every page fetch settles and every promise reaction runs.
FairPagedSpec ==
    /\ PagedSpec
    /\ WF_vars(Tick) /\ WF_vars(Settle)
    /\ WF_vars(PageSettle) /\ WF_vars(FoldSettle)

\* A worker whose only producer is one enqueueRequest call.
ReqNext ==
    \/ \E p \in Priorities : EnqueueRequest(p)
    \/ StartNoop
    \/ StartFilled
    \/ StartFill(<<>>)
    \/ Stop
    \/ ResetProgress
    \/ Tick
    \/ ReqSettle
    \/ Settle

ReqSpec == Init /\ [][ReqNext]_vars

TypeOK ==
    /\ queueFilled \in BOOLEAN /\ started \in BOOLEAN
    /\ processing \in BOOLEAN /\ timeout \in BOOLEAN
    /\ cancel \in Nat /\ progressDone \in Nat
    /\ progressTotal \in Nat /\ progressError \in Nat
    /\ Len(queue) <= MaxEnqueue

\* ---- properties -----------------------------------------------------------
Completions == {"resolved", "catch", "finally"}

\* in-flight actions whose promise has not settled yet
Awaiting == {t \in BagToSet(inflight) : ~t.caught}

C2_OneAtATime ==
    /\ Cardinality(Awaiting) <= 1
    /\ \A t \in Awaiting : CopiesIn(t, inflight) = 1

\* C3: while the worker is stopped the pacer is not armed, also after an
\* action that was in flight at stop() has completed.
C3_StoppedDisarmed == ~started => ~timeout

\* C4: a callback of an action popped before the most recent successful
\* resetProgress() changes none of the three progress counters.
C4_StaleSuppressed ==
    [][(last'.op \in Completions /\ last'.seg < resets') =>
           UNCHANGED counters]_vars

\* a stale action completed while the new generation had counted work
C4_Witness ==
    /\ last.op \in Completions
    /\ last.seg < resets
    /\ progressTotal >= 1

\* C5: resetProgress() succeeds only when the worker is not running
\* (started with a queued item or with processing set), and a failing
\* resetProgress() leaves the counters, the queue, queueFilled and the
\* epoch unchanged.
C5_ResetWhileRunningFails ==
    [][/\ last'.op = "resetOk" =>
              ~(started /\ (Len(queue) > 0 \/ processing))
       /\ last'.op = "resetThrow" =>
              /\ started /\ (Len(queue) > 0 \/ processing)
              /\ UNCHANGED <<counters, queue, queueFilled, cancel>>]_vars

\* resetProgress() threw with counted work and a queued item
C5_Witness ==
    /\ last.op = "resetThrow"
    /\ Len(queue) >= 1
    /\ progressDone >= 1

\* C6: a successful resetProgress() leaves an empty queue, zero counters,
\* queueFilled false and the epoch one greater; no other step changes the
\* epoch.
C6_ResetEffect ==
    [][/\ last'.op = "resetOk" =>
              /\ queue' = <<>>
              /\ progressDone' = 0 /\ progressTotal' = 0
              /\ progressError' = 0
              /\ queueFilled' = FALSE
              /\ cancel' = cancel + 1
       /\ last'.op # "resetOk" => cancel' = cancel]_vars

\* a reset succeeded while an earlier action was still in flight
C6_Witness ==
    /\ last.op = "resetOk"
    /\ cancel = 1
    /\ inflight # EmptyBag

\* C7: between two resets fillQueue is invoked at most once, and from
\* construction on (no reset yet) exactly once as soon as start() has been
\* called.
C7_FillOnce ==
    /\ fillCalls <= 1
    /\ (resets = 0 /\ startCalls >= 1) => fillCalls = 1

\* start() was called a second time, with no reset, right after a start()
C7_Witness ==
    /\ resets = 0
    /\ last.op = "start"
    /\ startCalls >= 2
    /\ fillCalls = 1

\* C8: once start() has been called after construction or after the last
\* successful resetProgress(), fillQueue has been invoked.
C8_FirstStartFills == startCalls >= 1 => fillCalls >= 1

\* C9: progressTotal equals the number of enqueue calls since construction
\* or the last successful resetProgress().
C9_TotalCountsEnqueues == progressTotal = enqCalls

\* enqueues of a second generation were counted while the worker was
\* stopped and an action was in flight
C9_Witness ==
    /\ resets >= 1
    /\ ~started
    /\ progressTotal = 2
    /\ inflight # EmptyBag

\* C10: when the queue is empty and no popped action is left, finished is
\* true; and once finished is true it stays true over every step that makes
\* no enqueue call.
C10_FinishedStable ==
    [][/\ (PQEmpty(queue') /\ inflight' = EmptyBag) => finished'
       /\ (finished /\ enqCalls' <= enqCalls) => finished']_vars

\* the last action of a drained queue has completed
C10_Witness ==
    /\ finished
    /\ last.op \in {"resolved", "finally"}
    /\ inflight = EmptyBag
    /\ progressDone >= 1

\* C15: stop() changes neither the queue, the epoch nor the counters, and
\* every callback of an action popped since the last successful
\* resetProgress() records its outcome, also while the worker is stopped:
\* .finally adds one to progressDone and .catch adds one to progressError.
C15_StopKeepsWork ==
    [][/\ last'.op = "stop" => UNCHANGED <<queue, cancel, counters>>
       /\ (last'.op \in {"resolved", "finally"} /\ last'.seg = resets') =>
              progressDone' = progressDone + 1
       /\ (last'.op = "catch" /\ last'.seg = resets') =>
              progressError' = progressError + 1]_vars

\* the only item of a never-reset worker was popped, the worker was stopped
\* while it was in flight, and its completion was counted
C15_Witness ==
    /\ resets = 0
    /\ ~started
    /\ progressTotal = 1
    /\ last.op = "resolved"
    /\ progressDone = 1

\* C17: finished is true exactly when the queue is empty and no popped
\* action is still in flight.
C17_FinishedIffIdle ==
    finished <=> (PQEmpty(queue) /\ inflight = EmptyBag)

\* C18: in every reachable state progressDone <= progressTotal and
\* progressError <= progressDone.
C18_ErrorWithinDone ==
    /\ progressDone <= progressTotal
    /\ progressError <= progressDone

\* C16: a started worker with a queued item always has its pacer armed or
\* an action in flight; and if from some point on the worker stays started
\* and no reset ever occurs, every queued item is eventually popped and run
\* and the worker ends up finished with nothing in flight.
C16_NeverStuck ==
    ~(started /\ ~PQEmpty(queue) /\ ~timeout /\ inflight = EmptyBag)

C16_Drains ==
    /\ []C16_NeverStuck
    /\ (<>[]started /\ [](resets = 0)) =>
           <>[](finished /\ inflight = EmptyBag)

\* a started, never-reset worker has popped and completed two items
C16_Witness ==
    /\ started
    /\ resets = 0
    /\ finished
    /\ inflight = EmptyBag
    /\ progressDone = 2

\* ---- properties of the paged and the plain request -----------------------
\* <<1, ..., k>>
FirstPages(k) == [i \in 1..k |-> i]

\* page fetches of the chain that are queued or outstanding
QueuedPages == {i \in 1..Len(queue) : queue[i].fn = "page"}
FetchingPages == {t \in BagToSet(inflight) : t.fn = "page" /\ t.out = "wait"}

\* the callbacks in which a page response is handled
PageOps == {"pageStale", "pageLast", "pageNext", "pageLiar"}

\* C11: the handler is invoked with the pages in order, once each; at most
\* one fetch of the chain is queued or outstanding at a time, and it is the
\* fetch of the page after the last one handled; the paged future resolves
\* only when all chain.n pages have been handled, and the fold future
\* resolves with the value accumulated over all of them.
C11_PagesInOrder ==
    /\ chain.handled = FirstPages(Len(chain.handled))
    /\ Len(chain.handled) <= chain.n
    /\ Cardinality(QueuedPages) + Cardinality(FetchingPages) <= 1
    /\ \A i \in QueuedPages : queue[i].page = Len(chain.handled) + 1
    /\ \A t \in FetchingPages : /\ CopiesIn(t, inflight) = 1
                                /\ t.page = Len(chain.handled) + 1
    /\ chain.st = "resolved" => chain.handled = FirstPages(chain.n)
    /\ chain.fold = "resolved" => chain.result = FirstPages(chain.n)

\* a three-page fold resolved on a worker that was never reset
C11_Witness ==
    /\ resets = 0
    /\ chain.n = 3
    /\ chain.fold = "resolved"
    /\ chain.result = <<1, 2, 3>>

\* C12: when the fetch of a page fails the paged future is rejected and
\* nothing is enqueued; once the paged future is rejected it stays rejected
\* and the chain makes no further enqueue call.
C12_FetchFailureRejects ==
    [][/\ last'.op = "pageFetchFailed" =>
              /\ chain'.st = "rejected"
              /\ queue' = queue
              /\ progressTotal' = progressTotal
       /\ chain.st = "rejected" =>
              /\ chain'.st = "rejected"
              /\ chain'.enq = chain.enq
              /\ progressTotal' <= progressTotal]_vars

\* the fetch of a later page failed, with no reset
C12_Witness ==
    /\ resets = 0
    /\ last.op = "pageFetchFailed"
    /\ Len(chain.handled) >= 1
    /\ chain.st = "rejected"

\* C13: a response under the current token that reports a next page but
\* yields none enqueues nothing and never resolves the paged future; the
\* throw reaches the .catch of the action, which rejects the paged future.
C13_LiarRejects ==
    [][/\ last'.op = "pageLiar" =>
              /\ queue' = queue
              /\ chain'.enq = chain.enq
              /\ progressTotal' = progressTotal
       /\ last'.op = "pageThrown" =>
              /\ chain'.st = "rejected"
              /\ queue' = queue
              /\ chain'.enq = chain.enq
       /\ chain'.liar =>
              \/ chain'.st = "rejected"
              \/ /\ chain'.st = "pending"
                 /\ \E t \in BagToSet(inflight') : t.out = "threw"]_vars

\* the protocol violation happened on a later page and rejected the future
C13_Witness ==
    /\ resets = 0
    /\ chain.liar
    /\ last.op = "pageThrown"
    /\ Len(chain.handled) >= 2
    /\ chain.st = "rejected"

\* C14: a page response handled for an action popped before the most
\* recent successful resetProgress() does not invoke the handler, does not
\* resolve the paged future and enqueues nothing.
C14_StaleChainInert ==
    [][(last'.op \in PageOps /\ last'.seg < resets') =>
           /\ chain'.handled = chain.handled
           /\ chain'.value = chain.value
           /\ chain'.st = "rejected"
           /\ chain'.enq = chain.enq
           /\ queue' = queue
           /\ progressTotal' = progressTotal]_vars

\* the response of a later page arrived after a reset
C14_Witness ==
    /\ last.op \in PageOps
    /\ last.seg < resets
    /\ Len(chain.handled) >= 1
    /\ chain.st = "rejected"

\* C19: if the worker ends up started for good, the futures of
\* enqueuePagedRequest and enqueuePagedRequestFold do not stay pending.
C19_PagedSettles ==
    <>[]started => <>[](chain.st # "pending" /\ chain.fold # "pending")

\* C20: once the action of enqueueRequest has run all its callbacks the
\* future is settled: resolved if the request succeeded under the current
\* token, rejected if the request failed or the token was stale.
C20_RequestSettles ==
    (/\ req.outcome # "none"
     /\ \A t \in BagToSet(inflight) : t.fn # "request") =>
        /\ req.outcome = "ok" => req.st = "resolved"
        /\ req.outcome \in {"failed", "stale"} => req.st = "rejected"
====
